---- MODULE Spec2Model ----
(***************************************************************************)
(* A model of the wavelet matrix of hideo55/go-waveletmatrix: the builder  *)
(* (waveletmatrix_builder.go), the query engine and the codec              *)
(* (waveletmatrix.go).  Positions and table indices are zero-based as in   *)
(* the Go source; TLA+ sequences are one-based, so At(s, i) reads s[i+1].  *)
(*                                                                         *)
(* uint64 arithmetic is modelled on words of WordBits bits that wrap       *)
(* modulo Modulus.  A word is sizeOfInt64 bytes of ByteBits bits each, so  *)
(* the byte layout of the codec keeps the source's 8 bytes per integer.    *)
(***************************************************************************)
EXTENDS Integers, Sequences, FiniteSets, TLC

\* ---------------------------------------------------------------- bounds
MaxLen == 3
MaxVal == 4
ByteBits == 2

\* ------------------------------------------------------ program constants
sizeOfInt64 == 8

WordBits == sizeOfInt64 * ByteBits
Modulus == 2 ^ WordBits
NotFound == Modulus - 1

\* ------------------------------------------------------- uint64 operators
Add(a, b) == (a + b) % Modulus
Sub(a, b) == (a - b + Modulus) % Modulus
Neg(a) == (Modulus - a) % Modulus
Shr(x, k) == IF k >= WordBits THEN 0 ELSE x \div (2 ^ k)
Shl(x, k) == IF k >= WordBits THEN 0 ELSE (x % (2 ^ (WordBits - k))) * (2 ^ k)

RECURSIVE BitAnd(_, _)
BitAnd(a, b) ==
  IF a = 0 \/ b = 0 THEN 0
  ELSE (a % 2) * (b % 2) + 2 * BitAnd(a \div 2, b \div 2)

RECURSIVE BitXor(_, _)
BitXor(a, b) ==
  IF a = 0 THEN b
  ELSE IF b = 0 THEN a
  ELSE ((a + b) % 2) + 2 * BitXor(a \div 2, b \div 2)

RECURSIVE BitOr(_, _)
BitOr(a, b) ==
  IF a = 0 THEN b
  ELSE IF b = 0 THEN a
  ELSE (IF a % 2 = 1 \/ b % 2 = 1 THEN 1 ELSE 0) + 2 * BitOr(a \div 2, b \div 2)

\* ------------------------------------------------- zero-based slice access
InRange(s, i) == i < Len(s)
At(s, i) == s[i + 1]
Put(s, i, v) == [s EXCEPT ![i + 1] = v]
RECURSIVE Zeros(_)
Zeros(k) == IF k = 0 THEN <<>> ELSE Append(Zeros(k - 1), 0)

toBool(bit) == bit # 0

\* ------------------------------------------------------ succinct bit vector
\* The bit vector library (github.com/hideo55/go-sbvector) is outside the
\* repository; it is modelled by the interface the wavelet matrix consumes.
\* A bit vector is a sequence of 0/1.
RECURSIVE CountBit(_, _, _)
CountBit(bv, i, b) ==
  IF i = 0 THEN 0
  ELSE CountBit(bv, i - 1, b) + (IF bv[i] = b THEN 1 ELSE 0)

\* builder.Set(pos, bit): the vector grows to hold position pos.
bvSet(bv, pos, bit) ==
  IF pos < Len(bv) THEN Put(bv, pos, bit)
  ELSE Append(bv \o Zeros(pos - Len(bv)), bit)

\* Get(i): the bit at i; out of range is an error (false) the callers drop.
bvGet(bv, i) == IF i < Len(bv) THEN bv[i + 1] = 1 ELSE FALSE

\* Rank1(i), Rank0(i): ones, zeros in [0, i); out of range is NotFound.
bvRank1(bv, i) == IF i > Len(bv) THEN NotFound ELSE CountBit(bv, i, 1)
bvRank0(bv, i) == IF i > Len(bv) THEN NotFound ELSE CountBit(bv, i, 0)
bvRank(bv, i, b) == IF b THEN bvRank1(bv, i) ELSE bvRank0(bv, i)

\* Select(x, b): position of the (x+1)-th bit b, or an error.
bvSelect(bv, x, b) ==
  LET bit == IF b THEN 1 ELSE 0
      hits == {p \in 0..(Len(bv) - 1) : bv[p + 1] = bit /\ CountBit(bv, p, bit) = x}
  IN
  IF hits = {} THEN [err |-> TRUE, pos |-> NotFound]
  ELSE [err |-> FALSE, pos |-> CHOOSE p \in hits : TRUE]

\* ------------------------------------------------------------------ builder
RECURSIVE AlphabetScan(_, _, _)
AlphabetScan(array, i, alphabetNum) ==
  IF i >= Len(array) THEN alphabetNum
  ELSE AlphabetScan(array, i + 1,
         IF At(array, i) >= alphabetNum THEN Add(At(array, i), 1) ELSE alphabetNum)

getAlphabetNum(array) == AlphabetScan(array, 0, 0)

RECURSIVE Log2Loop(_, _)
Log2Loop(x, bitNum) ==
  IF Shr(x, bitNum) # 0 THEN Log2Loop(x, bitNum + 1) ELSE bitNum

log2(x) == IF x = 0 THEN 0 ELSE Log2Loop(Sub(x, 1), 0)

\* rev ^= cur_max - (cur_max / 2 / (j & -j)): the next index in bit-reversed order
NextRev(rev, cur_max, j) ==
  BitXor(rev, Sub(cur_max, (cur_max \div 2) \div BitAnd(j, Neg(j))))

\* One iteration of the loop over src at level i (builder lines 53-63).
FillStep(st, v, i, L) ==
  LET bit == BitAnd(Shr(v, Sub(Sub(L, i), 1)), 1)
      subscript == Shr(v, Sub(L, i))
      child == BitOr(Shl(subscript, 1), bit)
  IN
  IF st.panic \/ ~InRange(st.prev, subscript) \/ ~InRange(st.np, child)
  THEN [st EXCEPT !.panic = TRUE]
  ELSE [panic |-> FALSE,
        bvb |-> bvSet(st.bvb, At(st.prev, subscript), bit),
        prev |-> Put(st.prev, subscript, Add(At(st.prev, subscript), 1)),
        np |-> Put(st.np, child, Add(At(st.np, child), 1))]

RECURSIVE Fill(_, _, _, _, _)
Fill(st, src, j, i, L) ==
  IF j >= Len(src) THEN st
  ELSE Fill(FillStep(st, At(src, j), i, L), src, j + 1, i, L)

\* Builder lines 69-73: the advanced cursors are moved back to the node starts.
RECURSIVE ShiftLoop(_, _, _, _, _)
ShiftLoop(prev, j, rev, prev_rev, cur_max) ==
  IF j = 0 THEN prev
  ELSE LET rev2 == NextRev(rev, cur_max, j)
       IN ShiftLoop(Put(prev, prev_rev, At(prev, rev2)), j - 1, rev2, rev2, cur_max)

\* A prefix sum that walks the table in index order.
RECURSIVE PrefixLoopInOrder(_, _, _, _, _)
PrefixLoopInOrder(np, j, rev, sum, cur_max) ==
  IF j >= cur_max THEN np
  ELSE LET t == At(np, j)
       IN PrefixLoopInOrder(Put(np, j, sum), j + 1, rev, Add(sum, t), cur_max)

\* Builder lines 80-85: child counts to child starts, in bit-reversed order.
RECURSIVE PrefixLoop(_, _, _, _, _)
PrefixLoop(np, j, rev, sum, cur_max) ==
  IF j >= cur_max THEN np
  ELSE LET t == At(np, rev)
       IN PrefixLoop(Put(np, rev, sum), j + 1, NextRev(rev, cur_max, j + 1),
                     Add(sum, t), cur_max)

\* One pass of the level loop (builder lines 51-89).  prev_begin_pos aliases
\* the dummy table at level 0 and nodePos[i-1] afterwards, so the cursor
\* updates are written back into nodePos[i-1].
BuildLevel(b, src, i, L) ==
  LET cur_max == Shl(1, i)
      filled == Fill([panic |-> FALSE, bvb |-> <<>>, prev |-> b.prev,
                      np |-> Zeros(2 ^ (i + 1))], src, 0, i, L)
      shifted == Put(ShiftLoop(filled.prev, Sub(cur_max, 1), Sub(cur_max, 1),
                               Sub(cur_max, 1), cur_max), 0, 0)
      sums == PrefixLoop(filled.np, 0, 0, 0, Shl(cur_max, 1))
  IN
  IF filled.panic THEN [b EXCEPT !.panic = TRUE]
  ELSE [panic |-> FALSE,
        nodePos |-> (IF i = 0 THEN <<>> ELSE Put(b.nodePos, i - 1, shifted)) \o <<sums>>,
        bv |-> Append(b.bv, filled.bvb),
        prev |-> sums]

RECURSIVE BuildLevels(_, _, _, _)
BuildLevels(b, src, i, L) ==
  IF i >= L \/ b.panic THEN b
  ELSE BuildLevels(BuildLevel(b, src, i, L), src, i + 1, L)

EmptyWM ==
  [size |-> 0, alphabetNum |-> 0, alphabetBitNum |-> 0, bv |-> <<>>,
   nodePos |-> <<>>, seps |-> <<>>]

\* wmBuilderData.Build: status is "ok", "ErrorEmpty" or "panic".
Build(src) ==
  LET alphabetNum == getAlphabetNum(src)
      alphabetBitNum == log2(alphabetNum)
      b == BuildLevels([panic |-> FALSE, nodePos |-> <<>>, bv |-> <<>>,
                        prev |-> <<0, Len(src)>>], src, 0, alphabetBitNum)
  IN
  IF alphabetNum = 0 THEN [status |-> "ErrorEmpty", wm |-> EmptyWM]
  ELSE IF b.panic THEN [status |-> "panic", wm |-> EmptyWM]
  ELSE [status |-> "ok",
        wm |-> [size |-> Len(src), alphabetNum |-> alphabetNum,
                alphabetBitNum |-> alphabetBitNum, bv |-> b.bv,
                nodePos |-> b.nodePos, seps |-> <<>>]]

NewWM(src) == Build(src)

\* ------------------------------------------------------------- query engine
\* A query result: panic marks a run-time fault (index out of range).
Ret(val, ok) == [panic |-> FALSE, val |-> val, ok |-> ok]
PanicRet == [panic |-> TRUE, val |-> 0, ok |-> FALSE]

\* A Lookup descent that forgets the zeros of the level when it follows a one.
RECURSIVE LookupLoopNoZeros(_, _, _, _)
LookupLoopNoZeros(w, i, index, c) ==
  IF i >= Len(w.bv) THEN c
  ELSE LET b == bvGet(At(w.bv, i), index)
           bit == IF b THEN 1 ELSE 0
           r == bvRank(At(w.bv, i), index, b)
       IN LookupLoopNoZeros(w, i + 1, r, BitOr(Shl(c, 1), bit))

RECURSIVE LookupLoop(_, _, _, _)
LookupLoop(w, i, index, c) ==
  IF i >= Len(w.bv) THEN c
  ELSE LET b == bvGet(At(w.bv, i), index)
           bit == IF b THEN 1 ELSE 0
           r == bvRank(At(w.bv, i), index, b)
       IN LookupLoop(w, i + 1,
                     IF b THEN Add(r, At(At(w.nodePos, i), 1)) ELSE r,
                     BitOr(Shl(c, 1), bit))

Lookup(w, pos) ==
  IF pos >= w.size THEN Ret(NotFound, FALSE)
  ELSE Ret(LookupLoop(w, 0, pos, 0), TRUE)

\* The descent shared by Rank (lines 154-162).
RECURSIVE RankLoop(_, _, _, _)
RankLoop(w, c, i, endPos) ==
  IF i >= w.alphabetBitNum THEN endPos
  ELSE LET bit == BitAnd(Shr(c, Sub(Sub(w.alphabetBitNum, i), 1)), 1)
           b == toBool(bit)
           r == bvRank(At(w.bv, i), endPos, b)
       IN RankLoop(w, c, i + 1, IF b THEN Add(r, At(At(w.nodePos, i), 1)) ELSE r)

Rank(w, c, pos) ==
  IF c >= w.alphabetNum \/ pos > w.size THEN Ret(NotFound, FALSE)
  ELSE IF pos = 0 THEN Ret(0, FALSE)
  ELSE IF ~InRange(w.nodePos, Sub(w.alphabetBitNum, 1)) THEN PanicRet
  ELSE LET beginPos == At(At(w.nodePos, Sub(w.alphabetBitNum, 1)), c)
       IN Ret(Sub(RankLoop(w, c, 0, pos), beginPos), TRUE)

\* RankAll's result; all three are NotFound for out-of-domain arguments.
Ret3(rank, less, more) == [rank |-> rank, rankLessThan |-> less, rankMoreThan |-> more]

\* The loop of RankAll (lines 185-206); a is [begNode, endNode, pos, less, more].
RECURSIVE RankAllLoop(_, _, _, _, _, _)
RankAllLoop(w, c, beginPos, endPos, i, a) ==
  IF ~(i < w.alphabetBitNum /\ beginPos < endPos) THEN a
  ELSE LET bv == At(w.bv, i)
           bit == BitAnd(Shr(c, Sub(Sub(w.alphabetBitNum, i), 1)), 1)
           b == toBool(bit)
           begNodeZero == bvRank0(bv, a.begNode)
           begNodeOne == Sub(a.begNode, begNodeZero)
           endNodeZero == bvRank0(bv, a.endNode)
           boundary == Sub(Add(a.begNode, endNodeZero), begNodeZero)
           rankZero == bvRank0(bv, a.pos)
           rankOne == bvRank1(bv, a.pos)
       IN RankAllLoop(w, c, beginPos, endPos, i + 1,
            IF b
            THEN [a EXCEPT !.less = Add(a.less, Sub(rankZero, begNodeZero)),
                           !.pos = Sub(Add(boundary, rankOne), Sub(a.begNode, begNodeZero)),
                           !.begNode = boundary]
            ELSE [a EXCEPT !.more = Add(a.more, Sub(rankOne, begNodeOne)),
                           !.pos = Sub(Add(a.begNode, rankZero), begNodeZero),
                           !.endNode = boundary])

\* A RankAll that lets the start position reach the size.
RankAllLooseBegin(w, c, beginPos, endPos) ==
  IF c >= w.alphabetNum \/ beginPos > w.size \/ endPos > w.size
  THEN Ret3(NotFound, NotFound, NotFound)
  ELSE IF beginPos >= endPos THEN Ret3(0, 0, 0)
  ELSE LET a == RankAllLoop(w, c, beginPos, endPos, 0,
                  [begNode |-> 0, endNode |-> w.size, pos |-> endPos,
                   less |-> 0, more |-> 0])
       IN Ret3(Sub(a.pos, a.begNode), a.less, a.more)

RankAll(w, c, beginPos, endPos) ==
  IF c >= w.alphabetNum \/ beginPos >= w.size \/ endPos > w.size
  THEN Ret3(NotFound, NotFound, NotFound)
  ELSE IF beginPos >= endPos THEN Ret3(0, 0, 0)
  ELSE LET a == RankAllLoop(w, c, beginPos, endPos, 0,
                  [begNode |-> 0, endNode |-> w.size, pos |-> endPos,
                   less |-> 0, more |-> 0])
       IN Ret3(Sub(a.pos, a.begNode), a.less, a.more)

RankLessThan(w, c, pos) == RankAll(w, c, 0, pos).rankLessThan

RankMoreThan(w, c, pos) == RankAll(w, c, 0, pos).rankMoreThan

\* Freq drops Rank's ok flag; a fault in Rank is a fault of Freq.
Freq(w, c) == Rank(w, c, w.size)

\* The descent of SelectFromPos for pos > 0 (lines 239-246).
RECURSIVE SelectDescend(_, _, _, _)
SelectDescend(w, c, i, index) ==
  IF i >= w.alphabetBitNum THEN index
  ELSE LET bit == BitAnd(Shr(c, Add(Sub(w.alphabetBitNum, i), 1)), 1)
           b == toBool(bit)
           r == bvRank(At(w.bv, i), index, b)
       IN SelectDescend(w, c, i + 1, IF b THEN Add(r, At(At(w.nodePos, i), 1)) ELSE r)

\* The ascent of SelectFromPos (lines 251-264); i runs from L-1 down to 0.
RECURSIVE SelectAscend(_, _, _, _)
SelectAscend(w, c, i, index) ==
  IF i < 0 THEN Ret(Sub(index, 1), TRUE)
  ELSE LET bit == BitAnd(Shr(c, Sub(Sub(w.alphabetBitNum, i), 1)), 1)
           b == toBool(bit)
           idx == IF b THEN Sub(index, At(At(w.nodePos, i), 1)) ELSE index
           sel == bvSelect(At(w.bv, i), Sub(idx, 1), b)
       IN IF sel.err THEN Ret(NotFound, FALSE)
          ELSE SelectAscend(w, c, i - 1, Add(sel.pos, 1))

SelectFromPos(w, c, pos, rank) ==
  IF c >= w.alphabetNum \/ pos >= w.size THEN Ret(NotFound, FALSE)
  ELSE IF Freq(w, c).panic THEN PanicRet
  ELSE IF rank > Freq(w, c).val THEN Ret(NotFound, FALSE)
  ELSE LET index == IF pos = 0
                    THEN At(At(w.nodePos, Sub(w.alphabetBitNum, 1)), c)
                    ELSE SelectDescend(w, c, 0, pos)
       IN SelectAscend(w, c, w.alphabetBitNum - 1, Add(index, rank))

Select(w, c, rank) == SelectFromPos(w, c, 0, rank)

RECURSIVE FreqSumLoop(_, _, _, _)
FreqSumLoop(w, i, maxC, sum) ==
  IF i >= maxC THEN Ret(sum, TRUE)
  ELSE IF Freq(w, i).panic THEN PanicRet
  ELSE FreqSumLoop(w, i + 1, maxC, Add(sum, Freq(w, i).val))

FreqSum(w, minC, maxC) == FreqSumLoop(w, minC, maxC, 0)

FreqRange(w, minC, maxC, begPos, endPos) ==
  IF minC >= w.alphabetNum THEN 0
  ELSE IF maxC <= minC THEN 0
  ELSE IF endPos > w.size \/ begPos >= endPos THEN 0
  ELSE Sub(RankAll(w, maxC, begPos, endPos).rankLessThan,
           RankAll(w, minC, begPos, endPos).rankLessThan)

\* QuantileRange's result.
RetQ(pos, val) == [panic |-> FALSE, pos |-> pos, val |-> val]
PanicQ == [panic |-> TRUE, pos |-> 0, val |-> 0]

\* The loop of QuantileRange (lines 315-347); a is [begPos, endPos, k, nodeNum, val].
RECURSIVE QuantileLoop(_, _, _, _, _)
QuantileLoop(w, fromZero, toEnd, i, a) ==
  IF i >= w.alphabetBitNum THEN a
  ELSE LET bv == At(w.bv, i)
           begZero == IF fromZero THEN At(At(w.nodePos, i), a.nodeNum)
                      ELSE bvRank0(bv, a.begPos)
           endZero == IF toEnd THEN At(At(w.nodePos, i), Add(a.nodeNum, 1))
                      ELSE bvRank0(bv, a.endPos)
           zeroBits == Sub(endZero, begZero)
           bit == IF a.k < zeroBits THEN 0 ELSE 1
           split == At(At(w.nodePos, i), 1)
       IN QuantileLoop(w, fromZero, toEnd, i + 1,
            [k |-> IF bit = 1 THEN Sub(a.k, zeroBits) ELSE a.k,
             begPos |-> IF bit = 1 THEN Add(a.begPos, Sub(split, begZero)) ELSE begZero,
             endPos |-> IF bit = 1 THEN Add(a.endPos, Sub(split, endZero)) ELSE endZero,
             nodeNum |-> BitOr(a.nodeNum, Shl(bit, i)),
             val |-> BitOr(Shl(a.val, 1), bit)])

QuantileRange(w, begPos, endPos, k) ==
  IF endPos >= w.size \/ begPos >= endPos \/ k >= Sub(endPos, begPos)
  THEN RetQ(NotFound, NotFound)
  ELSE LET a == QuantileLoop(w, begPos = 0, endPos = w.size, 0,
                  [k |-> k, begPos |-> begPos, endPos |-> endPos,
                   nodeNum |-> 0, val |-> 0])
       IN IF ~InRange(w.nodePos, Sub(w.alphabetBitNum, 1)) THEN PanicQ
          ELSE IF ~InRange(At(w.nodePos, Sub(w.alphabetBitNum, 1)), a.val) THEN PanicQ
          ELSE LET start == At(At(w.nodePos, Sub(w.alphabetBitNum, 1)), a.val)
                   sel == Select(w, a.val, Add(Sub(Add(a.begPos, a.k), start), 1))
               IN IF sel.panic THEN PanicQ ELSE RetQ(sel.val, a.val)

MaxRange(w, begPos, endPos) ==
  QuantileRange(w, begPos, endPos, Sub(Sub(endPos, begPos), 1))

MinRange(w, begPos, endPos) == QuantileRange(w, begPos, endPos, 0)

\* ------------------------------------------------------------ top-k listing
queryOnNode(begNode, endNode, begPos, endPos, depth, prefixChar) ==
  [begNode |-> begNode, endNode |-> endNode, begPos |-> begPos, endPos |-> endPos,
   depth |-> depth, prefixChar |-> prefixChar]

ListResult(c, freq) == [C |-> c, Freq |-> freq]

modeComparator(lhs, rhs) ==
  IF Sub(lhs.endPos, lhs.begPos) # Sub(rhs.endPos, rhs.begPos)
  THEN Sub(lhs.endPos, lhs.begPos) < Sub(rhs.endPos, rhs.begPos)
  ELSE IF lhs.depth # rhs.depth THEN lhs.depth < rhs.depth
  ELSE lhs.begPos > rhs.begPos

minComparator(lhs, rhs) ==
  IF lhs.depth # rhs.depth THEN lhs.depth < rhs.depth
  ELSE lhs.begPos > rhs.begPos

maxComparator(lhs, rhs) ==
  IF lhs.depth # rhs.depth THEN lhs.depth < rhs.depth
  ELSE lhs.begPos < rhs.begPos

Compare(comparator, lhs, rhs) ==
  CASE comparator = "mode" -> modeComparator(lhs, rhs)
    [] comparator = "min" -> minComparator(lhs, rhs)
    [] comparator = "max" -> maxComparator(lhs, rhs)

\* The priority queue (github.com/hideo55/go-pq) is outside the repository:
\* Pop returns the element no other element is ordered above.
pqPop(q, comparator) ==
  CHOOSE x \in q : \A y \in q : ~Compare(comparator, x, y)

prefixCode(x, size, bitNum) == Shr(x, Sub(bitNum, size))

checkPrefix(w, prefix, depth, minC, maxC) ==
  /\ prefixCode(minC, depth, w.alphabetBitNum) <= prefix
  /\ prefixCode(Sub(maxC, 1), depth, w.alphabetBitNum) >= prefix

expandNode(w, minC, maxC, qon) ==
  LET bv == At(w.bv, qon.depth)
      begNodeZero == bvRank0(bv, qon.begNode)
      endNodeZero == bvRank0(bv, qon.endNode)
      begNodeOne == Sub(qon.begNode, begNodeZero)
      begZero == bvRank0(bv, qon.begPos)
      endZero == bvRank0(bv, qon.endPos)
      begOne == Sub(qon.begPos, begZero)
      endOne == Sub(qon.endPos, endZero)
      boundary == Sub(Add(qon.begNode, endNodeZero), begNodeZero)
      zeroPrefix == Shl(qon.prefixChar, 1)
      onePrefix == Add(Shl(qon.prefixChar, 1), 1)
      zeroNode == queryOnNode(qon.begNode, boundary,
                              Sub(Add(qon.begNode, begZero), begNodeZero),
                              Sub(Add(qon.begNode, endZero), begNodeZero),
                              qon.depth + 1, zeroPrefix)
      oneNode == queryOnNode(boundary, qon.endNode,
                             Sub(Add(boundary, begOne), begNodeOne),
                             Sub(Add(boundary, endOne), begNodeOne),
                             qon.depth + 1, onePrefix)
  IN
  (IF Sub(endZero, begZero) > 0 /\ checkPrefix(w, zeroPrefix, qon.depth + 1, minC, maxC)
   THEN {zeroNode} ELSE {})
  \cup
  (IF Sub(endOne, begOne) > 0 /\ checkPrefix(w, onePrefix, qon.depth + 1, minC, maxC)
   THEN {oneNode} ELSE {})

\* The loop of listRange (lines 372-382).
RECURSIVE ListLoop(_, _, _, _, _, _, _)
ListLoop(w, minC, maxC, num, comparator, q, res) ==
  IF ~(Len(res) < num /\ q # {}) THEN res
  ELSE LET qon == pqPop(q, comparator)
           rest == q \ {qon}
       IN IF qon.depth >= w.alphabetBitNum
          THEN ListLoop(w, minC, maxC, num, comparator, rest,
                        Append(res, ListResult(qon.prefixChar, Sub(qon.endPos, qon.begPos))))
          ELSE ListLoop(w, minC, maxC, num, comparator,
                        rest \cup expandNode(w, minC, maxC, qon), res)

listRange(w, minC, maxC, begPos, endPos, num, comparator) ==
  IF endPos > w.size \/ begPos >= endPos THEN <<>>
  ELSE ListLoop(w, minC, maxC, num, comparator,
                {queryOnNode(0, w.size, begPos, endPos, 0, 0)}, <<>>)

ListModeRange(w, minC, maxC, begPos, endPos, num) ==
  listRange(w, minC, maxC, begPos, endPos, num, "mode")

ListMinRange(w, minC, maxC, begPos, endPos, num) ==
  listRange(w, minC, maxC, begPos, endPos, num, "min")

ListMaxRange(w, minC, maxC, begPos, endPos, num) ==
  listRange(w, minC, maxC, begPos, endPos, num, "max")

\* -------------------------------------------------------------------- codec
\* A byte holds ByteBits bits; an integer is written little-endian in
\* sizeOfInt64 bytes (binary.Write with binary.LittleEndian).
ByteBase == 2 ^ ByteBits

Mul(a, b) == (a * b) % Modulus

RECURSIVE PutBytes(_, _)
PutBytes(x, k) ==
  IF k = 0 THEN <<>> ELSE <<x % ByteBase>> \o PutBytes(x \div ByteBase, k - 1)

PutUint64(x) == PutBytes(x, sizeOfInt64)

\* binary.LittleEndian.Uint64
RECURSIVE Uint64(_)
Uint64(buf) ==
  IF buf = <<>> THEN 0 ELSE Head(buf) + ByteBase * Uint64(Tail(buf))

\* data[lo:hi]; the slice expression faults when its bounds are out of order
\* or past the end of data.
Slice(data, lo, hi) == SubSeq(data, lo + 1, hi)
SliceFaults(data, lo, hi) == lo > hi \/ hi > Len(data)

\* make([]T, n) faults when n elements of a word each do not fit the address
\* space.
MakeFaults(n) == n * sizeOfInt64 >= Modulus

\* The bit vector's own encoding belongs to go-sbvector.  It is modelled as
\* the number of bits followed by the bits packed ByteBits to a byte, low
\* bit first; decoding rejects a buffer of the wrong length.
RECURSIVE Uint64OfBits(_)
Uint64OfBits(bits) ==
  IF bits = <<>> THEN 0 ELSE Head(bits) + 2 * Uint64OfBits(Tail(bits))

RECURSIVE PackBits(_)
PackBits(bits) ==
  IF bits = <<>> THEN <<>>
  ELSE IF Len(bits) <= ByteBits THEN <<Uint64OfBits(bits)>>
  ELSE <<Uint64OfBits(SubSeq(bits, 1, ByteBits))>>
       \o PackBits(SubSeq(bits, ByteBits + 1, Len(bits)))

RECURSIVE UnpackBits(_, _, _)
UnpackBits(bytes, k, count) ==
  IF k >= count THEN <<>>
  ELSE <<(At(bytes, k \div ByteBits) \div (2 ^ (k % ByteBits))) % 2>>
       \o UnpackBits(bytes, k + 1, count)

bvMarshalBinary(bv) == PutUint64(Len(bv)) \o PackBits(bv)

NewVectorFromBinary(buf) ==
  IF Len(buf) < sizeOfInt64 THEN [err |-> TRUE, bv |-> <<>>]
  ELSE LET count == Uint64(Slice(buf, 0, sizeOfInt64))
           body == Slice(buf, sizeOfInt64, Len(buf))
       IN IF Len(body) # (count + ByteBits - 1) \div ByteBits
          THEN [err |-> TRUE, bv |-> <<>>]
          ELSE [err |-> FALSE, bv |-> UnpackBits(body, 0, count)]

\* MarshalBinary, the loop over the bit planes.
RECURSIVE MarshalPlanes(_, _)
MarshalPlanes(w, i) ==
  IF i >= Len(w.bv) THEN <<>>
  ELSE LET buf == bvMarshalBinary(At(w.bv, i))
       IN PutUint64(Len(buf)) \o buf \o MarshalPlanes(w, i + 1)

\* MarshalBinary, the loops over a table of integers.
RECURSIVE MarshalWords(_, _)
MarshalWords(words, j) ==
  IF j >= Len(words) THEN <<>>
  ELSE PutUint64(At(words, j)) \o MarshalWords(words, j + 1)

RECURSIVE MarshalTables(_, _)
MarshalTables(w, i) ==
  IF i >= Len(w.nodePos) THEN <<>>
  ELSE PutUint64(Len(At(w.nodePos, i))) \o MarshalWords(At(w.nodePos, i), 0)
       \o MarshalTables(w, i + 1)

\* An encoder that leaves out the count of seps that ends the format.
MarshalBinaryNoSeps(w) ==
  PutUint64(w.size) \o PutUint64(w.alphabetNum) \o PutUint64(w.alphabetBitNum)
  \o PutUint64(Len(w.bv)) \o MarshalPlanes(w, 0)
  \o PutUint64(Len(w.nodePos)) \o MarshalTables(w, 0)

MarshalBinary(w) ==
  PutUint64(w.size) \o PutUint64(w.alphabetNum) \o PutUint64(w.alphabetBitNum)
  \o PutUint64(Len(w.bv)) \o MarshalPlanes(w, 0)
  \o PutUint64(Len(w.nodePos)) \o MarshalTables(w, 0)
  \o PutUint64(Len(w.seps)) \o MarshalWords(w.seps, 0)

\* UnmarshalBinary.  A decoding step yields status "run" (go on),
\* "ErrorInvalidFormat" or "panic", the offset reached and the value read.
\* The receiver is overwritten field by field, so a failed decode leaves the
\* fields decoded so far.
Step(status, offset, val) == [status |-> status, offset |-> offset, val |-> val]

\* The length check and the read of one integer at offset.
ReadUint64(data, offset) ==
  IF Len(data) < Add(offset, sizeOfInt64)
  THEN Step("ErrorInvalidFormat", offset, 0)
  ELSE IF SliceFaults(data, offset, Add(offset, sizeOfInt64))
  THEN Step("panic", offset, 0)
  ELSE Step("run", Add(offset, sizeOfInt64),
            Uint64(Slice(data, offset, Add(offset, sizeOfInt64))))

\* The loop over the bit planes; val is the planes decoded so far.
RECURSIVE UnmarshalPlanes(_, _, _, _, _)
UnmarshalPlanes(data, offset, i, bvSize, planes) ==
  IF i >= bvSize THEN Step("run", offset, planes)
  ELSE
    LET r == ReadUint64(data, offset)
        vsize == r.val
        hi == Add(r.offset, vsize)
    IN IF r.status # "run" THEN Step(r.status, offset, planes)
       ELSE IF Len(data) < hi THEN Step("ErrorInvalidFormat", r.offset, planes)
       ELSE IF SliceFaults(data, r.offset, hi) THEN Step("panic", r.offset, planes)
       ELSE LET v == NewVectorFromBinary(Slice(data, r.offset, hi))
            IN IF v.err THEN Step("ErrorInvalidFormat", r.offset, planes)
               ELSE UnmarshalPlanes(data, hi, i + 1, bvSize, Append(planes, v.bv))

\* The loop that reads arrayLen integers without a length check of its own.
RECURSIVE UnmarshalWords(_, _, _, _, _)
UnmarshalWords(data, offset, j, arrayLen, words) ==
  IF j >= arrayLen THEN Step("run", offset, words)
  ELSE IF SliceFaults(data, offset, Add(offset, sizeOfInt64))
  THEN Step("panic", offset, words)
  ELSE UnmarshalWords(data, Add(offset, sizeOfInt64), j + 1, arrayLen,
                      Append(words, Uint64(Slice(data, offset, Add(offset, sizeOfInt64)))))

\* The length check, the allocation and the read of one table of integers.
UnmarshalArray(data, offset) ==
  LET r == ReadUint64(data, offset)
      arrayLen == r.val
  IN IF r.status # "run" THEN Step(r.status, offset, <<>>)
     ELSE IF Len(data) < Add(r.offset, Mul(sizeOfInt64, arrayLen))
     THEN Step("ErrorInvalidFormat", r.offset, <<>>)
     ELSE IF MakeFaults(arrayLen) THEN Step("panic", r.offset, <<>>)
     ELSE UnmarshalWords(data, r.offset, 0, arrayLen, <<>>)

\* The loop over the nodePos tables; val is the tables decoded so far.
RECURSIVE UnmarshalTables(_, _, _, _, _)
UnmarshalTables(data, offset, i, npSize, tables) ==
  IF i >= npSize THEN Step("run", offset, tables)
  ELSE LET r == UnmarshalArray(data, offset)
       IN IF r.status # "run" THEN Step(r.status, r.offset, tables)
          ELSE UnmarshalTables(data, r.offset, i + 1, npSize, Append(tables, r.val))

Decoded(status, w) == [status |-> status, wm |-> w]

UnmarshalBinary(w, data) ==
  LET rSize == ReadUint64(data, 0)
      w1 == [w EXCEPT !.size = rSize.val]
      rNum == ReadUint64(data, rSize.offset)
      w2 == [w1 EXCEPT !.alphabetNum = rNum.val]
      rBit == ReadUint64(data, rNum.offset)
      w3 == [w2 EXCEPT !.alphabetBitNum = rBit.val]
      rBv == ReadUint64(data, rBit.offset)
      planes == UnmarshalPlanes(data, rBv.offset, 0, rBv.val, <<>>)
      w4 == [w3 EXCEPT !.bv = planes.val]
      rNp == ReadUint64(data, planes.offset)
      tables == UnmarshalTables(data, rNp.offset, 0, rNp.val, <<>>)
      w5 == [w4 EXCEPT !.nodePos = tables.val]
      seps == UnmarshalArray(data, tables.offset)
  IN IF rSize.status # "run" THEN Decoded(rSize.status, w)
     ELSE IF rNum.status # "run" THEN Decoded(rNum.status, w1)
     ELSE IF rBit.status # "run" THEN Decoded(rBit.status, w2)
     ELSE IF rBv.status # "run" THEN Decoded(rBv.status, w3)
     ELSE IF MakeFaults(rBv.val) THEN Decoded("panic", w3)
     ELSE IF planes.status # "run" THEN Decoded(planes.status, w4)
     ELSE IF rNp.status # "run" THEN Decoded(rNp.status, w4)
     ELSE IF MakeFaults(rNp.val) THEN Decoded("panic", w4)
     ELSE IF tables.status # "run" THEN Decoded(tables.status, w5)
     ELSE IF seps.status # "run" THEN Decoded(seps.status, w5)
     ELSE Decoded("ok", [w5 EXCEPT !.seps = seps.val])

\* ------------------------------------------------------------ state machine
\* pc: "new" before Build, then "ready" (or Build's failure), and "queried"
\* once a query has returned; call holds that query, its arguments and result.
VARIABLES pc, src, wm, call

vars == <<pc, src, wm, call>>

RECURSIVE SourcesOfLen(_, _)
SourcesOfLen(len, maxVal) ==
  IF len = 0 THEN {<<>>}
  ELSE {Append(s, v) : s \in SourcesOfLen(len - 1, maxVal), v \in 0..maxVal}

Sources(maxLen, maxVal) == UNION {SourcesOfLen(len, maxVal) : len \in 0..maxLen}

\* Query arguments reach one past the valid characters and positions.
Chars == 0..(MaxVal + 1)
Positions == 0..(MaxLen + 1)

NoCall == [op |-> "none", args |-> <<>>, out |-> 0]

Init ==
  /\ pc = "new"
  /\ src \in Sources(MaxLen, MaxVal)
  /\ wm = EmptyWM
  /\ call = NoCall

DoBuild ==
  /\ pc = "new"
  /\ LET r == NewWM(src)
     IN /\ pc' = (IF r.status = "ok" THEN "ready" ELSE r.status)
        /\ wm' = r.wm
  /\ UNCHANGED <<src, call>>

Returned(op, args, out) == [op |-> op, args |-> args, out |-> out]

DoLookup ==
  /\ pc = "ready"
  /\ \E pos \in Positions : call' = Returned("Lookup", <<pos>>, Lookup(wm, pos))
  /\ pc' = "queried"
  /\ UNCHANGED <<src, wm>>

DoRank ==
  /\ pc = "ready"
  /\ \E c \in Chars, pos \in Positions :
       call' = Returned("Rank", <<c, pos>>, Rank(wm, c, pos))
  /\ pc' = "queried"
  /\ UNCHANGED <<src, wm>>

DoFreq ==
  /\ pc = "ready"
  /\ \E c \in Chars : call' = Returned("Freq", <<c>>, Freq(wm, c))
  /\ pc' = "queried"
  /\ UNCHANGED <<src, wm>>

DoSelect ==
  /\ pc = "ready"
  /\ \E c \in Chars, rank \in Positions :
       call' = Returned("Select", <<c, rank>>, Select(wm, c, rank))
  /\ pc' = "queried"
  /\ UNCHANGED <<src, wm>>

DoSelectFromPos ==
  /\ pc = "ready"
  /\ \E c \in Chars, pos \in Positions, rank \in Positions :
       call' = Returned("SelectFromPos", <<c, pos, rank>>, SelectFromPos(wm, c, pos, rank))
  /\ pc' = "queried"
  /\ UNCHANGED <<src, wm>>

Next == DoBuild \/ DoLookup \/ DoRank \/ DoFreq \/ DoSelect \/ DoSelectFromPos

Spec == Init /\ [][Next]_vars

\* Range queries: RankAll and its projections, the frequency sums, quantiles.
DoRankAll ==
  /\ pc = "ready"
  /\ \E c \in Chars, beginPos \in Positions, endPos \in Positions :
       call' = Returned("RankAll", <<c, beginPos, endPos>>, RankAll(wm, c, beginPos, endPos))
  /\ pc' = "queried"
  /\ UNCHANGED <<src, wm>>

DoRankLessThan ==
  /\ pc = "ready"
  /\ \E c \in Chars, pos \in Positions :
       call' = Returned("RankLessThan", <<c, pos>>, RankLessThan(wm, c, pos))
  /\ pc' = "queried"
  /\ UNCHANGED <<src, wm>>

DoRankMoreThan ==
  /\ pc = "ready"
  /\ \E c \in Chars, pos \in Positions :
       call' = Returned("RankMoreThan", <<c, pos>>, RankMoreThan(wm, c, pos))
  /\ pc' = "queried"
  /\ UNCHANGED <<src, wm>>

DoFreqSum ==
  /\ pc = "ready"
  /\ \E minC \in Chars, maxC \in Chars :
       call' = Returned("FreqSum", <<minC, maxC>>, FreqSum(wm, minC, maxC))
  /\ pc' = "queried"
  /\ UNCHANGED <<src, wm>>

DoFreqRange ==
  /\ pc = "ready"
  /\ \E minC \in Chars, maxC \in Chars, begPos \in Positions, endPos \in Positions :
       call' = Returned("FreqRange", <<minC, maxC, begPos, endPos>>,
                        FreqRange(wm, minC, maxC, begPos, endPos))
  /\ pc' = "queried"
  /\ UNCHANGED <<src, wm>>

DoQuantileRange ==
  /\ pc = "ready"
  /\ \E begPos \in Positions, endPos \in Positions, k \in Positions :
       call' = Returned("QuantileRange", <<begPos, endPos, k>>,
                        QuantileRange(wm, begPos, endPos, k))
  /\ pc' = "queried"
  /\ UNCHANGED <<src, wm>>

DoMaxRange ==
  /\ pc = "ready"
  /\ \E begPos \in Positions, endPos \in Positions :
       call' = Returned("MaxRange", <<begPos, endPos>>, MaxRange(wm, begPos, endPos))
  /\ pc' = "queried"
  /\ UNCHANGED <<src, wm>>

DoMinRange ==
  /\ pc = "ready"
  /\ \E begPos \in Positions, endPos \in Positions :
       call' = Returned("MinRange", <<begPos, endPos>>, MinRange(wm, begPos, endPos))
  /\ pc' = "queried"
  /\ UNCHANGED <<src, wm>>

NextRange ==
  \/ DoBuild
  \/ DoRank
  \/ DoRankAll
  \/ DoRankLessThan
  \/ DoRankMoreThan
  \/ DoFreqSum
  \/ DoFreqRange
  \/ DoQuantileRange
  \/ DoMaxRange
  \/ DoMinRange

SpecRange == Init /\ [][NextRange]_vars

\* Top-k listing.  maxC is an exclusive bound, so it reaches two past MaxVal.
Bounds == 0..(MaxVal + 2)

DoListModeRange ==
  /\ pc = "ready"
  /\ \E minC \in Chars, maxC \in Bounds, begPos \in Positions, endPos \in Positions,
        num \in Positions :
       call' = Returned("ListModeRange", <<minC, maxC, begPos, endPos, num>>,
                        ListModeRange(wm, minC, maxC, begPos, endPos, num))
  /\ pc' = "queried"
  /\ UNCHANGED <<src, wm>>

DoListMinRange ==
  /\ pc = "ready"
  /\ \E minC \in Chars, maxC \in Bounds, begPos \in Positions, endPos \in Positions,
        num \in Positions :
       call' = Returned("ListMinRange", <<minC, maxC, begPos, endPos, num>>,
                        ListMinRange(wm, minC, maxC, begPos, endPos, num))
  /\ pc' = "queried"
  /\ UNCHANGED <<src, wm>>

DoListMaxRange ==
  /\ pc = "ready"
  /\ \E minC \in Chars, maxC \in Bounds, begPos \in Positions, endPos \in Positions,
        num \in Positions :
       call' = Returned("ListMaxRange", <<minC, maxC, begPos, endPos, num>>,
                        ListMaxRange(wm, minC, maxC, begPos, endPos, num))
  /\ pc' = "queried"
  /\ UNCHANGED <<src, wm>>

NextList == DoBuild \/ DoListModeRange \/ DoListMinRange \/ DoListMaxRange

SpecList == Init /\ [][NextList]_vars

\* Serialization: the built index is encoded, then decoded into a fresh index.
DoMarshalBinary ==
  /\ pc = "ready"
  /\ call' = Returned("MarshalBinary", <<>>, MarshalBinary(wm))
  /\ pc' = "marshalled"
  /\ UNCHANGED <<src, wm>>

DoUnmarshalBinary ==
  /\ pc = "marshalled"
  /\ call' = Returned("UnmarshalBinary", <<call.out>>, UnmarshalBinary(EmptyWM, call.out))
  /\ pc' = "unmarshalled"
  /\ UNCHANGED <<src, wm>>

NextCodec == DoBuild \/ DoMarshalBinary \/ DoUnmarshalBinary

SpecCodec == Init /\ [][NextCodec]_vars

\* Construction over the whole value range: the sources also hold the largest
\* uint64, the one value whose successor wraps.
WideValues == (0..MaxVal) \cup {Modulus - 1}

RECURSIVE WideSourcesOfLen(_)
WideSourcesOfLen(len) ==
  IF len = 0 THEN {<<>>}
  ELSE {Append(s, v) : s \in WideSourcesOfLen(len - 1), v \in WideValues}

InitWide ==
  /\ pc = "new"
  /\ src \in UNION {WideSourcesOfLen(len) : len \in 0..MaxLen}
  /\ wm = EmptyWM
  /\ call = NoCall

Size(w) == w.size

DoSize ==
  /\ pc = "ready"
  /\ call' = Returned("Size", <<>>, Size(wm))
  /\ pc' = "queried"
  /\ UNCHANGED <<src, wm>>

NextBuild == DoBuild \/ DoSize

SpecBuild == InitWide /\ [][NextBuild]_vars

\* The queries that reject arguments outside their domain.
NextDomain == DoBuild \/ DoLookup \/ DoRank \/ DoSelect \/ DoRankAll \/ DoQuantileRange

SpecDomain == Init /\ [][NextDomain]_vars

\* Damaged encodings: the byte offsets of the counts and lengths that
\* MarshalBinary writes, a count too large for the input, and the strict
\* prefixes of an encoding.
RECURSIVE PlaneLengthOffsets(_, _, _)
PlaneLengthOffsets(w, i, offset) ==
  IF i >= Len(w.bv) THEN {}
  ELSE {offset} \cup PlaneLengthOffsets(w, i + 1,
         offset + sizeOfInt64 + Len(bvMarshalBinary(At(w.bv, i))))

RECURSIVE TableLengthOffsets(_, _, _)
TableLengthOffsets(w, i, offset) ==
  IF i >= Len(w.nodePos) THEN {}
  ELSE {offset} \cup TableLengthOffsets(w, i + 1,
         offset + sizeOfInt64 + sizeOfInt64 * Len(At(w.nodePos, i)))

CountOffsets(w) ==
  LET planes == 4 * sizeOfInt64
      tables == planes + Len(MarshalPlanes(w, 0))
  IN {3 * sizeOfInt64}
     \cup PlaneLengthOffsets(w, 0, planes)
     \cup {tables}
     \cup TableLengthOffsets(w, 0, tables + sizeOfInt64)
     \cup {Len(MarshalBinary(w)) - sizeOfInt64}

\* Counts no input of this length can hold: one past the input, the least
\* count whose product with sizeOfInt64 wraps, and the largest uint64.
OversizedCounts(data) == {Len(data), Modulus \div sizeOfInt64, Modulus - 1}

Overwrite(data, offset, x) ==
  SubSeq(data, 1, offset) \o PutUint64(x)
  \o SubSeq(data, offset + sizeOfInt64 + 1, Len(data))

Damaged(w, data) ==
  {SubSeq(data, 1, k) : k \in 0..(Len(data) - 1)}
  \cup {Overwrite(data, offset, x) : offset \in CountOffsets(w), x \in OversizedCounts(data)}

DoUnmarshalDamaged ==
  /\ pc = "marshalled"
  /\ \E data \in Damaged(wm, call.out) :
       call' = Returned("UnmarshalBinary", <<data>>, UnmarshalBinary(EmptyWM, data))
  /\ pc' = "unmarshalled"
  /\ UNCHANGED <<src, wm>>

NextDecode == DoBuild \/ DoMarshalBinary \/ DoUnmarshalDamaged

SpecDecode == Init /\ [][NextDecode]_vars

\* ------------------------------------------------------- reference counts
\* What the queries are specified to compute, read off the input sequence.
Count(beg, end, P(_)) == Cardinality({j \in beg..(end - 1) : j < Len(src) /\ P(At(src, j))})

CountEq(c, beg, end) == LET P(v) == v = c IN Count(beg, end, P)
CountLess(c, beg, end) == LET P(v) == v < c IN Count(beg, end, P)
CountMore(c, beg, end) == LET P(v) == v > c IN Count(beg, end, P)

Called(op) == pc = "queried" /\ call.op = op

\* ------------------------------------------------------------------ claims
\* The arguments of the query held in call.
Arg(i) == call.args[i]

\* sigma and n of the source, as the claims speak of them.
Sigma == wm.alphabetNum
N == Len(src)

\* C1: on the index built from a non-empty sequence A of length n, Lookup(i)
\* returns (A[i], true) for every 0 <= i < n.
LookupIdentity ==
  Called("Lookup") /\ Arg(1) < N => call.out = Ret(At(src, Arg(1)), TRUE)

\* A Lookup below the top of a three-level index that followed a one.
LookupIdentityWitness ==
  /\ Called("Lookup")
  /\ wm.alphabetBitNum >= 3
  /\ Arg(1) = N - 1
  /\ Arg(1) >= 2
  /\ call.out.ok
  /\ call.out.val >= 3
  /\ At(src, 0) # call.out.val

\* C2: for every c < sigma and 1 <= pos <= n, Rank(c, pos) returns (k, true)
\* with k the number of j < pos with A[j] = c; hence Rank(c, p) is
\* non-decreasing in p and never exceeds Freq(c) = Rank(c, n).
RankCountsOccurrences ==
  Called("Rank") /\ Arg(1) < Sigma /\ 1 <= Arg(2) /\ Arg(2) <= N
    => /\ call.out = Ret(CountEq(Arg(1), 0, Arg(2)), TRUE)
       /\ \A p \in 1..Arg(2) :
            /\ ~Rank(wm, Arg(1), p).panic
            /\ Rank(wm, Arg(1), p).val <= call.out.val
       /\ ~Freq(wm, Arg(1)).panic
       /\ call.out.val <= Freq(wm, Arg(1)).val

\* C3: Rank/Select inverse with a 0-based occurrence index: for every c with
\* Freq(c) > 0 and every 0 <= k < Freq(c), Select(c, k) returns (p, true) with
\* A[p] = c and Rank(c, p + 1) = k + 1.
SelectZeroBasedInverse ==
  Called("Select") /\ Arg(1) < Sigma /\ Arg(2) < CountEq(Arg(1), 0, N)
    => /\ ~call.out.panic
       /\ call.out.ok
       /\ call.out.val < N
       /\ At(src, call.out.val) = Arg(1)
       /\ Rank(wm, Arg(1), call.out.val + 1) = Ret(Arg(2) + 1, TRUE)

\* C4: Select counts occurrences from 1: for every c < sigma and every
\* 1 <= r <= Freq(c), Select(c, r) returns (p, true) with p the position in A
\* of the r-th occurrence of c.
SelectOneBased ==
  Called("Select") /\ Arg(1) < Sigma /\ 1 <= Arg(2) /\ Arg(2) <= CountEq(Arg(1), 0, N)
    => /\ ~call.out.panic
       /\ call.out.ok
       /\ call.out.val < N
       /\ At(src, call.out.val) = Arg(1)
       /\ CountEq(Arg(1), 0, call.out.val + 1) = Arg(2)

\* C5: for every c < sigma and p <= n, RankLessThan(c, p) is the number of
\* j < p with A[j] < c and RankMoreThan(c, p) the number of j < p with
\* A[j] > c, so that Rank(c, p) + RankLessThan(c, p) + RankMoreThan(c, p) = p.
RankLessMoreCount ==
  /\ Called("RankLessThan") /\ Arg(1) < Sigma /\ Arg(2) <= N
       => /\ call.out = CountLess(Arg(1), 0, Arg(2))
          /\ ~Rank(wm, Arg(1), Arg(2)).panic
          /\ Rank(wm, Arg(1), Arg(2)).val + call.out
               + RankMoreThan(wm, Arg(1), Arg(2)) = Arg(2)
  /\ Called("RankMoreThan") /\ Arg(1) < Sigma /\ Arg(2) <= N
       => call.out = CountMore(Arg(1), 0, Arg(2))

\* C6: RankAll(c, beg, end) is restricted to A[beg, end): for every c < sigma
\* and beg < end <= n it returns the numbers of positions j in [beg, end) with
\* A[j] = c, A[j] < c and A[j] > c, which add up to end - beg.
RankAllOnSubArray ==
  Called("RankAll") /\ Arg(1) < Sigma /\ Arg(2) < Arg(3) /\ Arg(3) <= N
    => /\ call.out = Ret3(CountEq(Arg(1), Arg(2), Arg(3)),
                          CountLess(Arg(1), Arg(2), Arg(3)),
                          CountMore(Arg(1), Arg(2), Arg(3)))
       /\ call.out.rank + call.out.rankLessThan + call.out.rankMoreThan
            = Arg(3) - Arg(2)

\* The number of positions j in [beg, end) with lo <= A[j] < hi.
CountBetween(lo, hi, beg, end) == LET P(v) == lo <= v /\ v < hi IN Count(beg, end, P)

\* C7: for every 0 <= lo < hi <= sigma and beg < end <= n,
\* FreqRange(lo, hi, beg, end) is the number of positions j in [beg, end) with
\* lo <= A[j] < hi; in particular FreqRange(0, sigma, beg, end) = end - beg.
FreqRangeCounts ==
  Called("FreqRange") /\ Arg(1) < Arg(2) /\ Arg(2) <= Sigma
    /\ Arg(3) < Arg(4) /\ Arg(4) <= N
    => /\ call.out = CountBetween(Arg(1), Arg(2), Arg(3), Arg(4))
       /\ (Arg(1) = 0 /\ Arg(2) = Sigma => call.out = Arg(4) - Arg(3))

\* The (k+1)-th smallest element of A[beg, end).
KthSmallest(beg, end, k) ==
  CHOOSE v \in 0..MaxVal :
    CountLess(v, beg, end) <= k /\ k < CountLess(v, beg, end) + CountEq(v, beg, end)

\* (pos, val) names an element of A[beg, end) equal to v.
Locates(out, beg, end, v) ==
  /\ ~out.panic
  /\ out.val = v
  /\ beg <= out.pos
  /\ out.pos < end
  /\ At(src, out.pos) = v

\* C8: for every 0 <= beg < end < n and k < end - beg, QuantileRange(beg, end, k)
\* returns (pos, val) with val the (k+1)-th smallest element of A[beg, end) and
\* pos a position of [beg, end) holding val; MinRange and MaxRange return the
\* minimum and the maximum of A[beg, end) in the same way.
QuantileIsKthSmallest ==
  /\ Called("QuantileRange") /\ Arg(1) < Arg(2) /\ Arg(2) < N /\ Arg(3) < Arg(2) - Arg(1)
       => Locates(call.out, Arg(1), Arg(2), KthSmallest(Arg(1), Arg(2), Arg(3)))
  /\ Called("MinRange") /\ Arg(1) < Arg(2) /\ Arg(2) < N
       => Locates(call.out, Arg(1), Arg(2), KthSmallest(Arg(1), Arg(2), 0))
  /\ Called("MaxRange") /\ Arg(1) < Arg(2) /\ Arg(2) < N
       => Locates(call.out, Arg(1), Arg(2),
                  KthSmallest(Arg(1), Arg(2), Arg(2) - Arg(1) - 1))

\* The characters of [lo, hi) that occur in A[beg, end).
Occurring(lo, hi, beg, end) == {c \in lo..(hi - 1) : CountEq(c, beg, end) > 0}

Smaller(a, b) == IF a < b THEN a ELSE b

\* The entries of a list: min(num, d) of them, with pairwise distinct
\* characters of [lo, hi) occurring in A[beg, end) and their true frequencies.
TrueEntries(res, lo, hi, beg, end, num) ==
  /\ Len(res) = Smaller(num, Cardinality(Occurring(lo, hi, beg, end)))
  /\ \A i \in 1..Len(res) :
       /\ res[i].C \in Occurring(lo, hi, beg, end)
       /\ res[i].Freq = CountEq(res[i].C, beg, end)
       /\ \A j \in 1..Len(res) : res[i].C = res[j].C => i = j

Listed(res) == {res[i].C : i \in 1..Len(res)}

\* C9: for lo < hi <= sigma and beg < end <= n, ListModeRange, ListMinRange and
\* ListMaxRange(lo, hi, beg, end, num) return min(num, d) entries, d the number
\* of distinct characters of [lo, hi) occurring in A[beg, end), with pairwise
\* distinct characters and true frequencies: the most frequent characters in
\* non-increasing frequency (Mode), the smallest in increasing order (Min), the
\* largest in decreasing order (Max).
ListRangeEntries ==
  LET lo == Arg(1)
      hi == Arg(2)
      beg == Arg(3)
      end == Arg(4)
      res == call.out
      others == Occurring(lo, hi, beg, end) \ Listed(res)
      valid == lo < hi /\ hi <= Sigma /\ beg < end /\ end <= N
  IN
  /\ Called("ListModeRange") /\ valid
       => /\ TrueEntries(res, lo, hi, beg, end, Arg(5))
          /\ \A i \in 1..Len(res) :
               /\ \A j \in i..Len(res) : res[i].Freq >= res[j].Freq
               /\ \A c \in others : res[i].Freq >= CountEq(c, beg, end)
  /\ Called("ListMinRange") /\ valid
       => /\ TrueEntries(res, lo, hi, beg, end, Arg(5))
          /\ \A i \in 1..Len(res) :
               /\ \A j \in (i + 1)..Len(res) : res[i].C < res[j].C
               /\ \A c \in others : res[i].C < c
  /\ Called("ListMaxRange") /\ valid
       => /\ TrueEntries(res, lo, hi, beg, end, Arg(5))
          /\ \A i \in 1..Len(res) :
               /\ \A j \in (i + 1)..Len(res) : res[i].C > res[j].C
               /\ \A c \in others : res[i].C > c

\* C10: for every index built by NewWM, UnmarshalBinary(MarshalBinary(idx))
\* succeeds and yields an index with the same size, alphabet size, bit count,
\* planes and nodePos tables, so that every query answers as idx does.
RoundTrip ==
  pc = "unmarshalled"
    => /\ call.out.status = "ok"
       /\ call.out.wm.size = wm.size
       /\ call.out.wm.alphabetNum = wm.alphabetNum
       /\ call.out.wm.alphabetBitNum = wm.alphabetBitNum
       /\ call.out.wm.bv = wm.bv
       /\ call.out.wm.nodePos = wm.nodePos
       /\ call.out.wm = wm
       /\ \A pos \in Positions : Lookup(call.out.wm, pos) = Lookup(wm, pos)
       /\ \A c \in Chars, pos \in Positions :
            /\ Rank(call.out.wm, c, pos) = Rank(wm, c, pos)
            /\ Select(call.out.wm, c, pos) = Select(wm, c, pos)
            /\ RankAll(call.out.wm, c, 0, pos) = RankAll(wm, c, 0, pos)

\* A decoded index of three planes whose planes do not fill their last byte.
RoundTripWitness ==
  /\ pc = "unmarshalled"
  /\ call.out.status = "ok"
  /\ Len(call.out.wm.bv) = 3
  /\ Len(call.out.wm.nodePos) = 3
  /\ wm.size % ByteBits # 0
  /\ \E i \in 1..3 : \E j \in 1..wm.size : call.out.wm.bv[i][j] = 1

\* The largest element of a non-empty sequence.
MaxOf(s) == CHOOSE v \in {s[i] : i \in 1..Len(s)} : \A i \in 1..Len(s) : s[i] <= v

\* C11: NewWM/Build fails with the empty-input error exactly when the input
\* has length 0; for every non-empty input over the whole uint64 range it
\* succeeds and returns an index with Size() = n and sigma = max(A) + 1.
BuildSucceedsOnNonEmpty ==
  pc # "new"
    => /\ (pc = "ErrorEmpty" <=> Len(src) = 0)
       /\ Len(src) > 0
            => /\ pc \in {"ready", "queried"}
               /\ Size(wm) = Len(src)
               /\ wm.alphabetNum = MaxOf(src) + 1

\* C12: out-of-domain arguments give the not-found result without a fault:
\* Lookup(pos) with pos >= n, Rank(c, pos) with c >= sigma or pos > n and
\* Select(c, k) with c >= sigma return (NotFound, false); RankAll with
\* c >= sigma, beg >= n or end > n returns NotFound three times;
\* QuantileRange(beg, end, k) with end >= n, beg >= end or k >= end - beg
\* returns (NotFound, NotFound).
OutOfDomainNotFound ==
  /\ Called("Lookup") /\ Arg(1) >= N => call.out = Ret(NotFound, FALSE)
  /\ Called("Rank") /\ (Arg(1) >= Sigma \/ Arg(2) > N)
       => call.out = Ret(NotFound, FALSE)
  /\ Called("Select") /\ Arg(1) >= Sigma => call.out = Ret(NotFound, FALSE)
  /\ Called("RankAll") /\ (Arg(1) >= Sigma \/ Arg(2) >= N \/ Arg(3) > N)
       => call.out = Ret3(NotFound, NotFound, NotFound)
  /\ Called("QuantileRange")
       /\ (Arg(2) >= N \/ Arg(1) >= Arg(2) \/ Arg(3) >= Arg(2) - Arg(1))
       => call.out = RetQ(NotFound, NotFound)

\* RankAll on a character of the alphabet, rejected for its start position
\* alone.
OutOfDomainWitness ==
  /\ Called("RankAll")
  /\ wm.alphabetBitNum >= 2
  /\ Arg(1) < Sigma
  /\ Arg(2) = N
  /\ Arg(3) <= N
  /\ call.out.rank = NotFound

\* C13: Rank at position 0 is a success: for every c < sigma, Rank(c, 0)
\* returns (0, true).
RankAtZeroSucceeds ==
  Called("Rank") /\ Arg(1) < Sigma /\ Arg(2) = 0 => call.out = Ret(0, TRUE)

\* C14: for every c < sigma and every start position 0 < pos < n,
\* SelectFromPos(c, pos, k) returns the position of the (k+1)-th occurrence of
\* c at or after pos whenever that occurrence exists.
SelectFromPosFindsOccurrence ==
  Called("SelectFromPos") /\ Arg(1) < Sigma /\ 0 < Arg(2) /\ Arg(2) < N
    /\ Arg(3) < CountEq(Arg(1), Arg(2), N)
    => /\ ~call.out.panic
       /\ call.out.ok
       /\ Arg(2) <= call.out.val
       /\ call.out.val < N
       /\ At(src, call.out.val) = Arg(1)
       /\ CountEq(Arg(1), Arg(2), call.out.val + 1) = Arg(3) + 1

\* C15: UnmarshalBinary checks every count and length it reads against the
\* remaining input: for every strict prefix of an encoding and every encoding
\* that declares a plane count, plane byte length, table count, table length
\* or seps length larger than the bytes that remain (lengths whose product
\* with 8 wraps included), it returns ErrorInvalidFormat and never faults.
DamagedInputRejected ==
  pc = "unmarshalled" /\ call.args[1] \in Damaged(wm, MarshalBinary(wm))
    => call.out.status = "ErrorInvalidFormat"

\* C16: on the index of a non-empty sequence of zeros (sigma = 1, no planes
\* and no nodePos tables) every query returns without a fault:
\* Lookup(i) = (0, true), Rank(0, pos) = (pos, true) for 1 <= pos <= n,
\* Freq(0) = n, and Select of an existing occurrence of 0 returns its position.
\* (Occurrences are numbered from 1, as Select numbers them.)
SingleCharacterQueries ==
  Sigma = 1 /\ wm.alphabetBitNum = 0
    => /\ Called("Lookup") /\ Arg(1) < N => call.out = Ret(0, TRUE)
       /\ Called("Rank") /\ Arg(1) = 0 /\ 1 <= Arg(2) /\ Arg(2) <= N
            => call.out = Ret(Arg(2), TRUE)
       /\ Called("Freq") /\ Arg(1) = 0 => ~call.out.panic /\ call.out.val = N
       /\ Called("Select") /\ Arg(1) = 0 /\ 1 <= Arg(2) /\ Arg(2) <= N
            => call.out = Ret(Arg(2) - 1, TRUE)

\* C17: every entry (C, Freq) returned by ListModeRange, ListMinRange or
\* ListMaxRange(lo, hi, beg, end, num) satisfies lo <= C < hi, for all lo and
\* hi; hence an empty character range (hi <= lo, hi = 0 included) yields an
\* empty list, and the list never has more than num entries.
ListEntriesWithinRange ==
  Called("ListModeRange") \/ Called("ListMinRange") \/ Called("ListMaxRange")
    => /\ \A i \in 1..Len(call.out) :
            Arg(1) <= call.out[i].C /\ call.out[i].C < Arg(2)
       /\ (Arg(2) <= Arg(1) => call.out = <<>>)
       /\ Len(call.out) <= Arg(5)

\* The last-level table of the built index.
LastTable == At(wm.nodePos, wm.alphabetBitNum - 1)

\* c read as a word of k bits, its bits in reverse order.
RECURSIVE BitReverse(_, _)
BitReverse(c, k) ==
  IF k = 0 THEN 0 ELSE (c % 2) * 2 ^ (k - 1) + BitReverse(c \div 2, k - 1)

HasLevels == pc \in {"ready", "queried"} /\ wm.alphabetBitNum >= 1

\* C18: after construction of any index with L >= 1, nodePos[L-1], read in
\* increasing character index c = 0 .. 2^L - 1, is monotone non-decreasing and
\* starts with nodePos[L-1][0] = 0.
LastTableMonotone ==
  HasLevels
    => /\ At(LastTable, 0) = 0
       /\ \A c \in 0..(Len(LastTable) - 2) : At(LastTable, c) <= At(LastTable, c + 1)

\* C18, amended: nodePos[L-1] has 2^L entries and starts with 0; entry c is the
\* number of elements of A whose L-bit code, bits reversed, is below that of
\* c, so the table is non-decreasing when read in bit-reversed character order.
LastTableBitReversedMonotone ==
  HasLevels
    => /\ Len(LastTable) = 2 ^ wm.alphabetBitNum
       /\ At(LastTable, 0) = 0
       /\ \A c \in 0..(Len(LastTable) - 1) :
            /\ At(LastTable, c)
                 = Cardinality({j \in 1..N : BitReverse(src[j], wm.alphabetBitNum)
                                               < BitReverse(c, wm.alphabetBitNum)})
            /\ \A d \in 0..(Len(LastTable) - 1) :
                 BitReverse(c, wm.alphabetBitNum) <= BitReverse(d, wm.alphabetBitNum)
                   => At(LastTable, c) <= At(LastTable, d)

\* A built index of three levels whose last table decreases somewhere in
\* character order.
LastTableWitness ==
  /\ HasLevels
  /\ wm.alphabetBitNum = 3
  /\ \E c \in 0..(Len(LastTable) - 2) : At(LastTable, c) > At(LastTable, c + 1)

====
